---- MODULE Spec2Model ----
(***************************************************************************)
(* selmon: Nagios plugins driven by Selenium WebDriver.                    *)
(*                                                                         *)
(* Two specifications share the variables below.                           *)
(*   SpecAgg  the NagiosMessage API (nagiosmessage.py) called in any order *)
(*            on up to MaxInst instances of the class.                     *)
(*   Spec     one plugin process: Plugin.__init__ followed by              *)
(*            Plugin.start() (plugin.py), with the SIGALRM deadline as an  *)
(*            asynchronous interrupt.                                      *)
(***************************************************************************)
EXTENDS Integers, Sequences, FiniteSets, TLC

(* ------------------------------ bounds --------------------------------- *)
MaxInst == 2
MaxCalls == 3
MaxRunSteps == 2
MaxElapsed == 5
MaxRenders == 2

(* --------------------- nagiosmessage.py constants ---------------------- *)
NAGIOS_STATUS_OK == 0
NAGIOS_STATUS_WARNING == 1
NAGIOS_STATUS_CRITICAL == 2
NAGIOS_STATUS_UNKNOWN == 3
UOM_SEC == "s"

StatusCodes ==
    {NAGIOS_STATUS_OK, NAGIOS_STATUS_WARNING, NAGIOS_STATUS_CRITICAL,
     NAGIOS_STATUS_UNKNOWN}

(* --------------------------- Python helpers ---------------------------- *)
\* A format string is a sequence of pieces; the piece "%s" is a conversion.
Conversions(fmt) == {i \in DOMAIN fmt : fmt[i] = "%s"}

\* fmt % args raises TypeError unless args has one value per conversion.
FormatOk(fmt, args) == Cardinality(Conversions(fmt)) = Len(args)

RECURSIVE Format(_, _)
Format(fmt, args) ==
    IF fmt = <<>> THEN ""
    ELSE IF Head(fmt) = "%s"
         THEN Head(args) \o Format(Tail(fmt), Tail(args))
         ELSE Head(fmt) \o Format(Tail(fmt), args)

RECURSIVE Join(_, _)
Join(sep, s) ==
    IF s = <<>> THEN ""
    ELSE IF Len(s) = 1 THEN s[1]
    ELSE s[1] \o sep \o Join(sep, Tail(s))

(* ------------------------ NagiosMessage methods ------------------------ *)
\* raise_status: the status code after raise_status(s) on a message at cur.
RaiseStatusBroken(cur, s) == s
RaiseStatus(cur, s) == IF s > cur THEN s ELSE cur

\* add_perfdata: the rendered sample; minval and maxval default to ''.
\* add_perfdata writing crit before warn
PerfDataStrSwapped(label, uom, real, warn, crit, minval, maxval) ==
    Format(<<"'", "%s", "'=", "%s", "%s", ";", "%s", ";", "%s", ";", "%s",
             ";", "%s">>,
           <<label, real, uom, crit, warn, minval, maxval>>)

PerfDataStr(label, uom, real, warn, crit, minval, maxval) ==
    Format(<<"'", "%s", "'=", "%s", "%s", ";", "%s", ";", "%s", ";", "%s",
             ";", "%s">>,
           <<label, real, uom, warn, crit, minval, maxval>>)

PrependNagiosOutput(code, message) ==
    IF code = NAGIOS_STATUS_OK THEN Format(<<"OK: ", "%s">>, <<message>>)
    ELSE IF code = NAGIOS_STATUS_WARNING
         THEN Format(<<"WARNING: ", "%s">>, <<message>>)
    ELSE IF code = NAGIOS_STATUS_CRITICAL
         THEN Format(<<"CRITICAL: ", "%s">>, <<message>>)
    ELSE IF code = NAGIOS_STATUS_UNKNOWN
         THEN Format(<<"UNKNOWN: ", "%s">>, <<message>>)
    ELSE message

\* __str__
Str(code, msgs, perf) ==
    PrependNagiosOutput(code, Join(", ", msgs) \o " | " \o Join(" ", perf))

(* ------------------------------- state --------------------------------- *)
VARIABLES
    instances,     \* the NagiosMessage objects constructed so far
    status_code,   \* self.status_code of each constructed object
    msg,           \* NagiosMessage.msg, the list bound in the class body
    perfdata,      \* NagiosMessage.perfdata, the list bound in the class body
    added,         \* history: the messages add_msg was given, per object
    sampled,       \* history: the samples add_perfdata was given, per object
    raised,        \* history: the values raise_status was given, in order, per object
    calls,         \* history: number of API calls made (bounds SpecAgg)
    rendered,      \* history: the str(object) calls since the last mutating call
    args,          \* Plugin.args: host, timeout, browser
    pc,            \* position of the plugin process
    conn,          \* Plugin.conn is bound
    driver,        \* Plugin.driver is a driver object (FALSE: None)
    alarm,         \* the SIGALRM countdown: "off", "armed" or "fired"
    exc,           \* the exception in flight
    stdout,        \* the lines printed
    exit_code,     \* the process's exit status, -1 while it runs
    quit_calls,    \* history: number of driver.quit() calls
    connect_calls, \* history: number of RemoteConnection(...) attempts
    driver_calls,  \* history: number of webdriver.Remote(...) attempts
    run_calls,     \* history: number of run() invocations
    deadline_at,   \* history: where the deadline interrupt was delivered
    steps,         \* history: number of helper calls run() has made
    bench,         \* the benchmark() block run() is inside, if any
    ghost          \* history: faults, their mapping, the last helper call

aggvars == <<instances, status_code, msg, perfdata, added, sampled, raised>>
plugvars == <<args, pc, conn, driver, alarm, exc, stdout, exit_code, quit_calls,
              connect_calls, driver_calls, run_calls, deadline_at, steps,
              bench, ghost>>
vars == <<aggvars, calls, rendered, plugvars>>

Instances == 1..MaxInst

\* self.msg and self.perfdata: no method ever binds an attribute of that name
\* on the object, so the lookup resolves to the class attribute.
MsgOf(i) == msg
PerfdataOf(i) == perfdata

(* --------------------------- NagiosMessage API ------------------------- *)
\* self.msg.append(m) in add_msg
MsgAdded(i, m) ==
    /\ msg' = Append(msg, m)
    /\ added' = [added EXCEPT ![i] = Append(@, m)]

\* the assignment in raise_status
StatusRaised(i, s) ==
    /\ status_code' = [status_code EXCEPT ![i] = RaiseStatus(@, s)]
    /\ raised' = [raised EXCEPT ![i] = Append(@, s)]

\* self.perfdata.append(datastr) in add_perfdata, given str(real), str(warn)
\* and str(crit)
SampleStrAdded(i, label, uom, real, warn, crit) ==
    LET datastr == PerfDataStr(label, uom, real, warn, crit, "", "")
    IN /\ perfdata' = Append(perfdata, datastr)
       /\ sampled' = [sampled EXCEPT ![i] = Append(@, datastr)]

\* add_perfdata with integer real, warn and crit
SampleAdded(i, label, uom, real, warn, crit) ==
    SampleStrAdded(i, label, uom, ToString(real), ToString(warn), ToString(crit))

\* NagiosMessage(): __init__ binds status_code only
Constructed(i) ==
    /\ instances' = instances \cup {i}
    /\ status_code' = [j \in instances \cup {i} |->
                         IF j = i THEN NAGIOS_STATUS_OK ELSE status_code[j]]
    /\ added' = [j \in instances \cup {i} |-> IF j = i THEN <<>> ELSE added[j]]
    /\ sampled' = [j \in instances \cup {i} |-> IF j = i THEN <<>> ELSE sampled[j]]
    /\ raised' = [j \in instances \cup {i} |-> IF j = i THEN <<>> ELSE raised[j]]

(* ------------------------- SpecAgg: the API ---------------------------- *)
Messages == {"message 1", "message 2"}
Labels == {"test_data"}
Reals == {2}
Warns == {3}
Crits == {5}

\* str() not called since the last add_msg, add_perfdata or raise_status
NoRender == [obj |-> 0, out |-> "", n |-> 0]

AggInit ==
    /\ instances = {}
    /\ status_code = <<>>
    /\ msg = <<>>
    /\ perfdata = <<>>
    /\ added = <<>>
    /\ sampled = <<>>
    /\ raised = <<>>
    /\ calls = 0
    /\ rendered = NoRender

NoExc == [type |-> "none", args |-> <<>>]

\* run() is inside no benchmark() block
NoBench == [label |-> "", warning |-> 0, critical |-> 0, active |-> FALSE]

\* no helper call made yet
NoCall ==
    [op |-> "none", n |-> 0, label |-> "", actual |-> "", expected |-> "",
     error_status |-> NAGIOS_STATUS_OK, ret |-> TRUE,
     elapsed |-> 0, warning |-> 0, critical |-> 0]

NoHistory ==
    [faults |-> 0,          \* faults raised so far, the deadline included
     fault_msgs |-> 0,      \* add_msg calls made by the except clauses
     fault_raises |-> 0,    \* raise_status calls made by the except clauses
     run_exc |-> NoExc,     \* the exception run() raised
     msg_at_fault |-> <<>>, \* the messages when run() raised
     status_at_fault |-> NAGIOS_STATUS_OK,  \* the status when run() raised
     bench_aborted |-> <<>>,  \* labels of the benchmark blocks left by a raise
     call |-> NoCall]       \* the last helper call run() made

PlugIdle ==
    /\ pc = "construct"
    /\ conn = FALSE
    /\ driver = FALSE
    /\ alarm = "off"
    /\ exc = NoExc
    /\ stdout = <<>>
    /\ exit_code = -1
    /\ quit_calls = 0
    /\ connect_calls = 0
    /\ driver_calls = 0
    /\ run_calls = 0
    /\ deadline_at = "none"
    /\ steps = 0
    /\ bench = NoBench
    /\ ghost = NoHistory

New(i) ==
    /\ i \notin instances
    /\ Constructed(i)
    /\ UNCHANGED <<msg, perfdata, calls, rendered, plugvars>>

AddMsg(i, m) ==
    /\ i \in instances
    /\ calls < MaxCalls
    /\ MsgAdded(i, m)
    /\ calls' = calls + 1
    /\ rendered' = NoRender
    /\ UNCHANGED <<instances, status_code, perfdata, sampled, raised, plugvars>>

DoRaiseStatus(i, s) ==
    /\ i \in instances
    /\ calls < MaxCalls
    /\ StatusRaised(i, s)
    /\ calls' = calls + 1
    /\ rendered' = NoRender
    /\ UNCHANGED <<instances, msg, perfdata, added, sampled, plugvars>>

AddPerfdata(i, label, real, warn, crit) ==
    /\ i \in instances
    /\ calls < MaxCalls
    /\ SampleAdded(i, label, UOM_SEC, real, warn, crit)
    /\ calls' = calls + 1
    /\ rendered' = NoRender
    /\ UNCHANGED <<instances, status_code, msg, added, raised, plugvars>>

\* a str() that empties the message list it has joined
RenderConsuming(i) ==
    /\ i \in instances
    /\ rendered.n < MaxRenders
    /\ rendered' = [obj |-> i, n |-> rendered.n + 1,
                    out |-> Str(status_code[i], MsgOf(i), PerfdataOf(i))]
    /\ msg' = <<>>
    /\ UNCHANGED <<instances, status_code, perfdata, added, sampled, raised,
                   calls, plugvars>>

\* str(object): __str__ reads status_code, msg and perfdata and returns the
\* report
Render(i) ==
    /\ i \in instances
    /\ rendered.n < MaxRenders
    /\ rendered' = [obj |-> i, n |-> rendered.n + 1,
                    out |-> Str(status_code[i], MsgOf(i), PerfdataOf(i))]
    /\ UNCHANGED <<aggvars, calls, plugvars>>

InitAgg ==
    /\ AggInit
    /\ PlugIdle
    /\ args = [host |-> "localhost", timeout |-> 0, browser |-> "firefox"]

NextAgg ==
    \/ \E i \in Instances : New(i)
    \/ \E i \in Instances, m \in Messages : AddMsg(i, m)
    \/ \E i \in Instances, s \in StatusCodes : DoRaiseStatus(i, s)
    \/ \E i \in Instances, l \in Labels, r \in Reals, w \in Warns, c \in Crits :
          AddPerfdata(i, l, r, w, c)
    \/ \E i \in Instances : Render(i)

SpecAgg == InitAgg /\ [][NextAgg]_vars

(* ----------------------- Spec: one plugin process ---------------------- *)
\* the keys of Plugin.capabilities_mapping
CapabilityNames ==
    {"chrome", "firefox", "android", "phantomjs", "opera", "htmlunit",
     "htmlunit_withjs", "ie", "ipad", "iphone", "safari"}

Hosts == {"selenium.example"}
Timeouts == {0, 10}
Browsers == {"firefox", "netscape"}

\* the object Plugin.__init__ binds to self.nagios_message
P == 1

GlobalTimeoutException == [type |-> "GlobalTimeoutException", args |-> <<>>]
ConnectionException ==
    [type |-> "ConnectionException",
     args |-> <<"Error connecting to Selenium server">>]
\* raise DriverInitException, None, tb: a new instance without arguments
DriverInitException == [type |-> "DriverInitException", args |-> <<>>]
TypeError ==
    [type |-> "TypeError",
     args |-> <<"not all arguments converted during string formatting">>]

\* the faults run() raises: an assert with or without a message, another
\* error, and one that does not derive from Exception
RunFaults ==
    {[type |-> "AssertionError", args |-> <<>>],
     [type |-> "ValueError", args |-> <<"bad value">>],
     [type |-> "KeyboardInterrupt", args |-> <<>>]}

\* the exception classes that do not derive from Exception
BaseOnly == {"KeyboardInterrupt", "SystemExit", "GeneratorExit"}

\* str(type(e)) of a built-in exception class
TypeStr(t) == "<type 'exceptions." \o t \o "'>"

\* The except clause of start() that catches e, in the order they are
\* written; "none" when e passes them all.
Clause(e) ==
    IF e.type \in BaseOnly THEN "none"
    ELSE IF e.type = "GlobalTimeoutException" THEN "timeout"
    ELSE IF e.type = "ConnectionException" THEN "connection"
    ELSE IF e.type = "DriverInitException" THEN "driver"
    ELSE "generic"

\* The format string each clause gives add_msg, and its arguments.
ClauseFormat(e) ==
    IF Clause(e) = "timeout"
    THEN <<"Global timeout of ", "%s", " seconds reached">>
    ELSE IF Clause(e) = "connection"
    THEN <<"Could not connect to Selenium server at ">>
    ELSE IF Clause(e) = "driver"
    THEN <<"Could not initialize Selenium driver">>
    ELSE <<"FAILED: Exception of type: ", "%s", ", message: ", "%s">>

ClauseArgs(e) ==
    IF Clause(e) = "timeout" THEN <<ToString(args.timeout)>>
    ELSE IF Clause(e) = "connection" THEN <<args.host>>
    ELSE IF Clause(e) = "driver" THEN <<>>
    ELSE <<TypeStr(e.type),
           IF e.args = <<>> THEN "No message in exception" ELSE e.args[1]>>

\* The status each clause gives raise_status.
ClauseStatusAllUnknown(e) == NAGIOS_STATUS_UNKNOWN
ClauseStatusAllCritical(e) == NAGIOS_STATUS_CRITICAL
ClauseStatus(e) ==
    IF Clause(e) \in {"connection", "driver"} THEN NAGIOS_STATUS_UNKNOWN
    ELSE NAGIOS_STATUS_CRITICAL

Init ==
    /\ AggInit
    /\ PlugIdle
    /\ args \in [host : Hosts, timeout : Timeouts, browser : Browsers]

\* Plugin.__init__: self.nagios_message = NagiosMessage(), argument parsing
Construct ==
    /\ pc = "construct"
    /\ P \notin instances
    /\ Constructed(P)
    /\ pc' = "validate"
    /\ UNCHANGED <<msg, perfdata, calls, rendered, args, conn, driver, alarm, exc, stdout,
                   exit_code, quit_calls, connect_calls, driver_calls,
                   run_calls, deadline_at, steps,
                   bench, ghost>>

\* The browser check without its sys.exit.
ValidateBrowserNoExit ==
    /\ pc = "validate"
    /\ IF args.browser \notin CapabilityNames
       THEN /\ MsgAdded(P, Format(<<"browser is invalid: ", "%s">>,
                                  <<args.browser>>))
            /\ StatusRaised(P, NAGIOS_STATUS_UNKNOWN)
       ELSE UNCHANGED <<status_code, msg, added, raised>>
    /\ pc' = "start"
    /\ UNCHANGED <<instances, perfdata, sampled, calls, rendered, args, conn, driver,
                   alarm, exc, stdout, exit_code, quit_calls, connect_calls,
                   driver_calls, run_calls, deadline_at, steps,
                   bench, ghost>>

\* Plugin.__init__: the browser check; sys.exit on an unknown name
ValidateBrowser ==
    /\ pc = "validate"
    /\ IF args.browser \notin CapabilityNames
       THEN /\ MsgAdded(P, Format(<<"browser is invalid: ", "%s">>,
                                  <<args.browser>>))
            /\ StatusRaised(P, NAGIOS_STATUS_UNKNOWN)
            /\ exit_code' = status_code'[P]
            /\ pc' = "done"
       ELSE /\ pc' = "start"
            /\ UNCHANGED <<status_code, msg, added, raised, exit_code>>
    /\ UNCHANGED <<instances, perfdata, sampled, calls, rendered, args, conn, driver,
                   alarm, exc, stdout, quit_calls, connect_calls, driver_calls,
                   run_calls, deadline_at, steps,
                   bench, ghost>>

\* start(): signal.signal(SIGALRM, timeout_handler); signal.alarm(timeout)
ArmAlarm ==
    /\ pc = "start"
    /\ alarm' = IF args.timeout > 0 THEN "armed" ELSE "off"
    /\ pc' = "connecting"
    /\ UNCHANGED <<aggvars, calls, rendered, args, conn, driver, exc, stdout, exit_code,
                   quit_calls, connect_calls, driver_calls, run_calls,
                   deadline_at, steps,
                   bench, ghost>>

\* init_connection() tried again after a failed attempt
InitConnectionRetry(ok) ==
    /\ pc = "connecting"
    /\ connect_calls' = connect_calls + 1
    /\ IF ok
       THEN conn' = TRUE /\ pc' = "driver_init" /\ UNCHANGED exc
       ELSE pc' = "connecting" /\ UNCHANGED <<exc, conn>>
    /\ ghost' = IF ok THEN ghost ELSE [ghost EXCEPT !.faults = @ + 1]
    /\ UNCHANGED <<aggvars, calls, rendered, args, driver, alarm, stdout, exit_code,
                   quit_calls, driver_calls, run_calls, deadline_at, steps,
                   bench>>

\* init_connection(): RemoteConnection(host) returns or raises
InitConnection(ok) ==
    /\ pc = "connecting"
    /\ connect_calls' = connect_calls + 1
    /\ IF ok
       THEN conn' = TRUE /\ pc' = "driver_init" /\ UNCHANGED exc
       ELSE exc' = ConnectionException /\ pc' = "except" /\ UNCHANGED conn
    /\ ghost' = IF ok THEN ghost ELSE [ghost EXCEPT !.faults = @ + 1]
    /\ UNCHANGED <<aggvars, calls, rendered, args, driver, alarm, stdout, exit_code,
                   quit_calls, driver_calls, run_calls, deadline_at, steps,
                   bench>>

\* init_driver(): webdriver.Remote(conn, capabilities) returns or raises
InitDriver(ok) ==
    /\ pc = "driver_init"
    /\ driver_calls' = driver_calls + 1
    /\ IF ok
       THEN driver' = TRUE /\ pc' = "run" /\ UNCHANGED exc
       ELSE exc' = DriverInitException /\ pc' = "except" /\ UNCHANGED driver
    /\ ghost' = IF ok THEN ghost ELSE [ghost EXCEPT !.faults = @ + 1]
    /\ UNCHANGED <<aggvars, calls, rendered, args, conn, alarm, stdout, exit_code,
                   quit_calls, connect_calls, run_calls, deadline_at, steps,
                   bench>>

\* self.run()
CallRun ==
    /\ pc = "run"
    /\ run_calls' = run_calls + 1
    /\ pc' = "running"
    /\ UNCHANGED <<aggvars, calls, rendered, args, conn, driver, alarm, exc, stdout,
                   exit_code, quit_calls, connect_calls, driver_calls,
                   deadline_at, steps,
                   bench, ghost>>

(* run(): what a subclass's check routine does with the plugin's helpers *)
VerifyLabels == {"title"}
VerifyValues == {"a", "b"}
VerifyExpected == {"a"}

\* self.nagios_message.raise_status(s) called by run()
RunRaiseStatus(s) ==
    /\ pc = "running"
    /\ steps < MaxRunSteps
    /\ ~bench.active
    /\ StatusRaised(P, s)
    /\ steps' = steps + 1
    /\ ghost' = [ghost EXCEPT !.call =
                    [NoCall EXCEPT !.op = "raise_status", !.n = steps + 1,
                                   !.error_status = s]]
    /\ UNCHANGED <<instances, msg, perfdata, added, sampled, calls, rendered, args, pc,
                   conn, driver, alarm, exc, stdout, exit_code, quit_calls,
                   connect_calls, driver_calls, run_calls, deadline_at,
                   bench>>

\* verify_equals with expected and actual exchanged in its message
RunVerifyEqualsSwapped(label, actual, expected, error_status) ==
    /\ pc = "running"
    /\ steps < MaxRunSteps
    /\ ~bench.active
    /\ IF actual # expected
       THEN /\ MsgAdded(P, Format(<<"Test failed: ", "%s", ", expected: ", "%s",
                                    ", actual: ", "%s">>,
                                  <<label, actual, expected>>))
            /\ StatusRaised(P, error_status)
       ELSE UNCHANGED <<status_code, msg, added, raised>>
    /\ steps' = steps + 1
    /\ ghost' = [ghost EXCEPT !.call =
                    [NoCall EXCEPT !.op = "verify_equals", !.n = steps + 1,
                                   !.label = label, !.actual = actual,
                                   !.expected = expected,
                                   !.error_status = error_status,
                                   !.ret = (actual = expected)]]
    /\ UNCHANGED <<instances, perfdata, sampled, calls, rendered, args, pc, conn, driver,
                   alarm, exc, stdout, exit_code, quit_calls, connect_calls,
                   driver_calls, run_calls, deadline_at,
                   bench>>

\* verify_equals(label, actual_value, expected_value, error_status)
RunVerifyEquals(label, actual, expected, error_status) ==
    /\ pc = "running"
    /\ steps < MaxRunSteps
    /\ ~bench.active
    /\ IF actual # expected
       THEN /\ MsgAdded(P, Format(<<"Test failed: ", "%s", ", expected: ", "%s",
                                    ", actual: ", "%s">>,
                                  <<label, expected, actual>>))
            /\ StatusRaised(P, error_status)
       ELSE UNCHANGED <<status_code, msg, added, raised>>
    /\ steps' = steps + 1
    /\ ghost' = [ghost EXCEPT !.call =
                    [NoCall EXCEPT !.op = "verify_equals", !.n = steps + 1,
                                   !.label = label, !.actual = actual,
                                   !.expected = expected,
                                   !.error_status = error_status,
                                   !.ret = (actual = expected)]]
    /\ UNCHANGED <<instances, perfdata, sampled, calls, rendered, args, pc, conn, driver,
                   alarm, exc, stdout, exit_code, quit_calls, connect_calls,
                   driver_calls, run_calls, deadline_at,
                   bench>>

ElemTexts == {"selenium - web browser automation", "404 not found"}
SearchTexts == {"selenium"}
TextStatuses == {NAGIOS_STATUS_CRITICAL, NAGIOS_STATUS_UNKNOWN}

\* text in elem.text, for the element texts and search texts above
TextIn(text, elemtext) ==
    text = "selenium" /\ elemtext = "selenium - web browser automation"

\* verify_text_present_in_elem(elem, text, error_status)
RunVerifyText(elemtext, text, error_status) ==
    /\ pc = "running"
    /\ steps < MaxRunSteps
    /\ ~bench.active
    /\ IF ~TextIn(text, elemtext)
       THEN /\ MsgAdded(P, Format(<<"Text not present: ", "%s">>, <<text>>))
            /\ StatusRaised(P, error_status)
       ELSE UNCHANGED <<status_code, msg, added, raised>>
    /\ steps' = steps + 1
    /\ ghost' = [ghost EXCEPT !.call =
                    [NoCall EXCEPT !.op = "verify_text_present_in_elem",
                                   !.n = steps + 1, !.label = text,
                                   !.actual = elemtext,
                                   !.error_status = error_status,
                                   !.ret = TextIn(text, elemtext)]]
    /\ UNCHANGED <<instances, perfdata, sampled, calls, rendered, args, pc, conn, driver,
                   alarm, exc, stdout, exit_code, quit_calls, connect_calls,
                   driver_calls, run_calls, deadline_at, bench>>

\* document.images of the current page: src, naturalWidth, naturalHeight
Pages ==
    {<<[src |-> "logo.png", naturalWidth |-> 10, naturalHeight |-> 10]>>,
     <<[src |-> "logo.png", naturalWidth |-> 10, naturalHeight |-> 10],
       [src |-> "a.png", naturalWidth |-> 0, naturalHeight |-> 0],
       [src |-> "b.png", naturalWidth |-> 0, naturalHeight |-> 0]>>}
ImageStatuses == {NAGIOS_STATUS_WARNING, NAGIOS_STATUS_UNKNOWN}

\* get_broken_images(): the src of every image whose natural width and
\* height are both zero
RECURSIVE GetBrokenImages(_)
GetBrokenImages(images) ==
    IF images = <<>> THEN <<>>
    ELSE (IF Head(images).naturalWidth = 0 /\ Head(images).naturalHeight = 0
          THEN <<Head(images).src>> ELSE <<>>)
         \o GetBrokenImages(Tail(images))

\* verify_broken_images(error_status)
RunVerifyBrokenImages(images, error_status) ==
    /\ pc = "running"
    /\ steps < MaxRunSteps
    /\ ~bench.active
    /\ LET broken_images == GetBrokenImages(images)
       IN IF Len(broken_images) > 0
          THEN /\ MsgAdded(P, Format(<<"Found broken images: ", "%s">>,
                                     <<Join(", ", broken_images)>>))
               /\ StatusRaised(P, error_status)
          ELSE UNCHANGED <<status_code, msg, added, raised>>
    /\ steps' = steps + 1
    /\ ghost' = [ghost EXCEPT !.call =
                    [NoCall EXCEPT !.op = "verify_broken_images",
                                   !.n = steps + 1,
                                   !.error_status = error_status,
                                   !.ret = (Len(GetBrokenImages(images)) = 0)]]
    /\ UNCHANGED <<instances, perfdata, sampled, calls, rendered, args, pc, conn, driver,
                   alarm, exc, stdout, exit_code, quit_calls, connect_calls,
                   driver_calls, run_calls, deadline_at, bench>>

\* str() of a float counted in half seconds
FloatStr(h) == ToString(h \div 2) \o (IF h % 2 = 0 THEN ".0" ELSE ".5")

\* elapsed >= threshold: a bound that is not strict
ExceedsOrEquals(h, threshold) == h >= 2 * threshold

\* elapsed > threshold, elapsed in half seconds and threshold in seconds
Exceeds(h, threshold) == h > 2 * threshold

BenchLabels == {"open_homepage"}
BenchWarnings == {1, 3}
BenchCriticals == {2}
Elapsed == 0..MaxElapsed

\* with benchmark(self.nagios_message, label, warning, critical): entering
\* the block; start_time = time.time()
RunBenchmarkEnter(label, warning, critical) ==
    /\ pc = "running"
    /\ steps < MaxRunSteps
    /\ ~bench.active
    /\ bench' = [label |-> label, warning |-> warning, critical |-> critical,
                 active |-> TRUE]
    /\ steps' = steps + 1
    /\ UNCHANGED <<aggvars, calls, rendered, args, pc, conn, driver, alarm, exc, stdout,
                   exit_code, quit_calls, connect_calls, driver_calls,
                   run_calls, deadline_at, ghost>>

\* benchmark(): the block ended without raising after h half seconds; the
\* statements after the yield
RunBenchmarkExit(h) ==
    /\ pc = "running"
    /\ bench.active
    /\ LET executed == Format(<<"%s", " executed in ", "%s", " seconds">>,
                              <<bench.label, FloatStr(h)>>)
           critmsg == Format(<<"'", "%s", "' exceeded critical threshold of ",
                               "%s">>,
                             <<bench.label, ToString(bench.critical)>>)
           warnmsg == Format(<<"'", "%s", "' exceeded warning threshold of ",
                               "%s">>,
                             <<bench.label, ToString(bench.warning)>>)
       IN /\ SampleStrAdded(P, bench.label, UOM_SEC, FloatStr(h),
                            ToString(bench.warning), ToString(bench.critical))
          /\ IF Exceeds(h, bench.critical)
             THEN /\ msg' = msg \o <<executed, critmsg>>
                  /\ added' = [added EXCEPT ![P] = @ \o <<executed, critmsg>>]
                  /\ StatusRaised(P, NAGIOS_STATUS_CRITICAL)
             ELSE IF Exceeds(h, bench.warning)
             THEN /\ msg' = msg \o <<executed, warnmsg>>
                  /\ added' = [added EXCEPT ![P] = @ \o <<executed, warnmsg>>]
                  /\ StatusRaised(P, NAGIOS_STATUS_WARNING)
             ELSE /\ MsgAdded(P, executed)
                  /\ UNCHANGED <<status_code, raised>>
    /\ bench' = NoBench
    /\ ghost' = [ghost EXCEPT !.call =
                    [NoCall EXCEPT !.op = "benchmark", !.n = steps,
                                   !.label = bench.label, !.elapsed = h,
                                   !.warning = bench.warning,
                                   !.critical = bench.critical]]
    /\ UNCHANGED <<instances, calls, rendered, args, pc, conn, driver, alarm, exc, stdout,
                   exit_code, quit_calls, connect_calls, driver_calls,
                   run_calls, deadline_at, steps>>

\* run() raises e
RunRaise(e) ==
    /\ pc = "running"
    /\ exc' = e
    /\ pc' = IF Clause(e) = "none" THEN "finally" ELSE "except"
    /\ bench' = NoBench
    /\ ghost' = [ghost EXCEPT !.faults = @ + 1,
                              !.run_exc = e,
                              !.msg_at_fault = MsgOf(P),
                              !.status_at_fault = status_code[P],
                              !.bench_aborted =
                                  IF bench.active THEN Append(@, bench.label)
                                  ELSE @]
    /\ UNCHANGED <<aggvars, calls, rendered, args, conn, driver, alarm, stdout, exit_code,
                   quit_calls, connect_calls, driver_calls, run_calls,
                   deadline_at, steps>>

\* run() returns
RunReturn ==
    /\ pc = "running"
    /\ ~bench.active
    /\ pc' = "finally"
    /\ UNCHANGED <<aggvars, calls, rendered, args, conn, driver, alarm, exc, stdout,
                   exit_code, quit_calls, connect_calls, driver_calls,
                   run_calls, deadline_at, steps,
                   bench, ghost>>

(* ------------------ start(): except clauses and finally ---------------- *)
\* The add_msg of the clause that caught exc. A TypeError raised by the
\* formatting leaves the clause with the new exception in flight.
ExceptAddMsg ==
    /\ pc = "except"
    /\ IF FormatOk(ClauseFormat(exc), ClauseArgs(exc))
       THEN /\ MsgAdded(P, Format(ClauseFormat(exc), ClauseArgs(exc)))
            /\ pc' = "except_raise"
            /\ UNCHANGED exc
       ELSE /\ exc' = TypeError
            /\ pc' = "finally"
            /\ UNCHANGED <<msg, added>>
    /\ ghost' = IF FormatOk(ClauseFormat(exc), ClauseArgs(exc))
                THEN [ghost EXCEPT !.fault_msgs = @ + 1]
                ELSE [ghost EXCEPT !.faults = @ + 1]
    /\ UNCHANGED <<instances, status_code, perfdata, sampled, raised, calls, rendered,
                   args, conn, driver, alarm, stdout, exit_code, quit_calls,
                   connect_calls, driver_calls, run_calls, deadline_at, steps,
                   bench>>

\* The raise_status of the clause that caught exc; the clause ends.
ExceptRaiseStatus ==
    /\ pc = "except_raise"
    /\ StatusRaised(P, ClauseStatus(exc))
    /\ exc' = NoExc
    /\ pc' = "finally"
    /\ ghost' = [ghost EXCEPT !.fault_raises = @ + 1]
    /\ UNCHANGED <<instances, msg, perfdata, added, sampled, calls, rendered, args, conn,
                   driver, alarm, stdout, exit_code, quit_calls, connect_calls,
                   driver_calls, run_calls, deadline_at, steps,
                   bench>>

\* finally: if self.driver: self.driver.quit()
Finally ==
    /\ pc = "finally"
    /\ quit_calls' = IF driver THEN quit_calls + 1 ELSE quit_calls
    /\ pc' = "print"
    /\ UNCHANGED <<aggvars, calls, rendered, args, conn, driver, alarm, exc, stdout,
                   exit_code, connect_calls, driver_calls, run_calls,
                   deadline_at, steps,
                   bench, ghost>>

\* finally: print self.nagios_message
PrintReport ==
    /\ pc = "print"
    /\ stdout' = Append(stdout, Str(status_code[P], MsgOf(P), PerfdataOf(P)))
    /\ pc' = "exit"
    /\ UNCHANGED <<aggvars, calls, rendered, args, conn, driver, alarm, exc, exit_code,
                   quit_calls, connect_calls, driver_calls, run_calls,
                   deadline_at, steps,
                   bench, ghost>>

\* finally: sys.exit(self.nagios_message.status_code); SystemExit replaces
\* whatever exception was in flight.
Exit ==
    /\ pc = "exit"
    /\ exit_code' = status_code[P]
    /\ exc' = NoExc
    /\ pc' = "done"
    /\ UNCHANGED <<aggvars, calls, rendered, args, conn, driver, alarm, stdout,
                   quit_calls, connect_calls, driver_calls, run_calls,
                   deadline_at, steps,
                   bench, ghost>>

(* ------------------------- the SIGALRM deadline ------------------------ *)
\* timeout_handler raises GlobalTimeoutException in the main thread, wherever
\* it is. No statement of start() cancels the alarm, so it stays armed until
\* it fires or the process ends.

\* Delivered inside the try of init_connection or init_driver: their
\* "except Exception" catches it and raises the setup fault instead.
TimeoutInSetup ==
    /\ alarm = "armed"
    /\ pc \in {"connecting", "driver_init"}
    /\ alarm' = "fired"
    /\ deadline_at' = IF pc = "connecting" THEN "init_connection" ELSE "init_driver"
    /\ exc' = IF pc = "connecting" THEN ConnectionException ELSE DriverInitException
    /\ connect_calls' = IF pc = "connecting" THEN connect_calls + 1 ELSE connect_calls
    /\ driver_calls' = IF pc = "driver_init" THEN driver_calls + 1 ELSE driver_calls
    /\ pc' = "except"
    /\ ghost' = [ghost EXCEPT !.faults = @ + 1]
    /\ UNCHANGED <<aggvars, calls, rendered, args, conn, driver, stdout, exit_code,
                   quit_calls, run_calls, steps,
                   bench>>

\* Delivered in the try body of start() outside those two: between its
\* statements, or inside run().
TimeoutInTry ==
    /\ alarm = "armed"
    /\ pc \in {"connecting", "driver_init", "run", "running"}
    /\ alarm' = "fired"
    /\ deadline_at' = IF pc = "running" THEN "run" ELSE "try"
    /\ exc' = GlobalTimeoutException
    /\ pc' = "except"
    /\ bench' = NoBench
    /\ ghost' = [ghost EXCEPT !.faults = @ + 1,
                              !.bench_aborted =
                                  IF bench.active THEN Append(@, bench.label)
                                  ELSE @]
    /\ UNCHANGED <<aggvars, calls, rendered, args, conn, driver, stdout, exit_code,
                   quit_calls, connect_calls, driver_calls, run_calls, steps>>

\* Delivered inside an except clause: the clause is abandoned and the
\* finally block runs with GlobalTimeoutException in flight.
TimeoutInExcept ==
    /\ alarm = "armed"
    /\ pc \in {"except", "except_raise"}
    /\ alarm' = "fired"
    /\ deadline_at' = "except"
    /\ exc' = GlobalTimeoutException
    /\ pc' = "finally"
    /\ ghost' = [ghost EXCEPT !.faults = @ + 1]
    /\ UNCHANGED <<aggvars, calls, rendered, args, conn, driver, stdout, exit_code,
                   quit_calls, connect_calls, driver_calls, run_calls, steps,
                   bench>>

\* Delivered inside the finally block: nothing catches it, the interpreter
\* prints a traceback and the process ends with status 1.
TimeoutInFinally ==
    /\ alarm = "armed"
    /\ pc \in {"finally", "print", "exit"}
    /\ alarm' = "fired"
    /\ deadline_at' = "finally"
    /\ exc' = GlobalTimeoutException
    /\ exit_code' = 1
    /\ pc' = "uncaught"
    /\ ghost' = [ghost EXCEPT !.faults = @ + 1]
    /\ UNCHANGED <<aggvars, calls, rendered, args, conn, driver, stdout, quit_calls,
                   connect_calls, driver_calls, run_calls, steps,
                   bench>>

Next ==
    \/ Construct
    \/ ValidateBrowser
    \/ ArmAlarm
    \/ \E ok \in BOOLEAN : InitConnection(ok)
    \/ \E ok \in BOOLEAN : InitDriver(ok)
    \/ CallRun
    \/ \E s \in StatusCodes : RunRaiseStatus(s)
    \/ \E l \in VerifyLabels, a \in VerifyValues, e \in VerifyExpected,
          s \in StatusCodes : RunVerifyEquals(l, a, e, s)
    \/ \E t \in ElemTexts, x \in SearchTexts, s \in TextStatuses :
          RunVerifyText(t, x, s)
    \/ \E i \in Pages, s \in ImageStatuses : RunVerifyBrokenImages(i, s)
    \/ \E l \in BenchLabels, w \in BenchWarnings, c \in BenchCriticals :
          RunBenchmarkEnter(l, w, c)
    \/ \E h \in Elapsed : RunBenchmarkExit(h)
    \/ \E e \in RunFaults : RunRaise(e)
    \/ RunReturn
    \/ ExceptAddMsg
    \/ ExceptRaiseStatus
    \/ Finally
    \/ PrintReport
    \/ Exit
    \/ TimeoutInSetup
    \/ TimeoutInTry
    \/ TimeoutInExcept
    \/ TimeoutInFinally

Spec == Init /\ [][Next]_vars

Terminated == pc \in {"done", "uncaught"}

(* ============================== claims ================================= *)
Range(q) == {q[k] : k \in DOMAIN q}
MaxOf(S) == CHOOSE x \in S : \A y \in S : y <= x
InMsgs(i, m) == m \in Range(MsgOf(i))

ConnectMsg == "Could not connect to Selenium server at " \o args.host
TimeoutMsg == "Global timeout of " \o ToString(args.timeout) \o " seconds reached"
InvalidBrowserMsg == "browser is invalid: " \o args.browser

\* RemoteConnection(...) was attempted and init_connection raised
\* ConnectionException.
ConnectFailed == connect_calls = 1 /\ ~conn

\* C1: when init_connection raises ConnectionException during start(), the
\* run ends with severity UNKNOWN, the message 'Could not connect to Selenium
\* server at <host>' among the messages, run() never invoked, and exit code 3.
C1_ConnectionFaultIsUnknown ==
    (Terminated /\ ConnectFailed /\ deadline_at = "none") =>
        /\ status_code[P] = NAGIOS_STATUS_UNKNOWN
        /\ InMsgs(P, ConnectMsg)
        /\ run_calls = 0
        /\ exit_code = NAGIOS_STATUS_UNKNOWN

\* C2: on every execution path of the process the rendered report is written
\* to stdout exactly once before the process ends.
C2_ReportPrintedExactlyOnce == Terminated => Len(stdout) = 1

\* C3: messages and samples are per-object state: every object holds exactly
\* the messages and samples added through it, so a new object holds none and
\* a call on one object never shows in another.
C3_StoragePerInstance ==
    \A i \in instances : MsgOf(i) = added[i] /\ PerfdataOf(i) = sampled[i]

\* C4: after any sequence of raise_status calls with values in OK, WARNING,
\* CRITICAL on an object that starts at OK, the severity is the maximum of
\* the values given so far.
C4_SeverityIsMaxRaised ==
    \A i \in instances :
        Range(raised[i]) \subseteq
            {NAGIOS_STATUS_OK, NAGIOS_STATUS_WARNING, NAGIOS_STATUS_CRITICAL}
        => status_code[i] = MaxOf(Range(raised[i]) \cup {NAGIOS_STATUS_OK})

\* C4 witness: a lower value was given after a higher one and the higher
\* one stands.
C4_Witness ==
    \E i \in instances :
        /\ raised[i] = <<NAGIOS_STATUS_CRITICAL, NAGIOS_STATUS_WARNING>>
        /\ status_code[i] = NAGIOS_STATUS_CRITICAL

Count(q, x) == Cardinality({k \in DOMAIN q : q[k] = x})

\* What run() gave raise_status before the deadline interrupted it: all but
\* the last value, which is the one the except clause gave.
RaisedByRun == SubSeq(raised[P], 1, Len(raised[P]) - 1)

\* C5 as stated: if the deadline fires while run() executes, the run ends
\* with severity CRITICAL, the message 'Global timeout of <N> seconds reached'
\* among the messages, and the driver quit exactly once.
C5_DeadlineInRunIsCritical ==
    (Terminated /\ deadline_at = "run") =>
        /\ status_code[P] = NAGIOS_STATUS_CRITICAL
        /\ Count(MsgOf(P), TimeoutMsg) = 1
        /\ quit_calls = 1

\* C5 amended: if the deadline fires while run() executes, the run ends with
\* severity CRITICAL, or UNKNOWN when run() had already raised the status to
\* UNKNOWN; the timeout message is among the messages once and the driver is
\* quit exactly once.
C5_DeadlineInRunAtLeastCritical ==
    (Terminated /\ deadline_at = "run") =>
        /\ pc = "done"
        /\ status_code[P] =
              IF NAGIOS_STATUS_UNKNOWN \in Range(RaisedByRun)
              THEN NAGIOS_STATUS_UNKNOWN ELSE NAGIOS_STATUS_CRITICAL
        /\ Count(MsgOf(P), TimeoutMsg) = 1
        /\ quit_calls = 1

\* C5 witness: a run interrupted inside run() has ended CRITICAL with the
\* driver quit.
C5_Witness ==
    /\ pc = "done"
    /\ deadline_at = "run"
    /\ status_code[P] = NAGIOS_STATUS_CRITICAL
    /\ quit_calls = 1

\* C6: if the deadline fires while start() is blocked in init_connection or
\* init_driver, the run ends CRITICAL with the timeout message, never UNKNOWN.
C6_DeadlineInSetupIsCritical ==
    (Terminated /\ deadline_at \in {"init_connection", "init_driver"}) =>
        /\ status_code[P] = NAGIOS_STATUS_CRITICAL
        /\ InMsgs(P, TimeoutMsg)

\* C7: the deadline is disarmed once connect, driver init and run() are over:
\* the interrupt is never delivered inside an except clause or the finally
\* block of start().
C7_NoDeadlineAfterRunning == deadline_at \notin {"except", "finally"}

\* C8: when the process ends, a driver that was acquired has been quit
\* exactly once, and quit was never called when none was acquired.
C8_DriverQuitExactlyOnce ==
    Terminated => quit_calls = (IF driver THEN 1 ELSE 0)

\* C9: every start() (the constructor returned, so the browser name is a
\* known one) ends the process through sys.exit with the numeric value of the
\* final severity; no exception leaves start().
C9_ExitCodeIsSeverity ==
    (Terminated /\ args.browser \in CapabilityNames) =>
        pc = "done" /\ exit_code = status_code[P]

\* C10: an unknown browser name ends the process in the constructor: nothing
\* is connected, no driver is created, run() is not invoked, the severity is
\* UNKNOWN, 'browser is invalid: <name>' is among the messages and the exit
\* code is 3.
C10_InvalidBrowserShortCircuits ==
    (args.browser \notin CapabilityNames /\ pc \notin {"construct", "validate"}) =>
        /\ pc = "done"
        /\ connect_calls = 0 /\ driver_calls = 0 /\ run_calls = 0
        /\ alarm = "off"
        /\ status_code[P] = NAGIOS_STATUS_UNKNOWN
        /\ InMsgs(P, InvalidBrowserMsg)
        /\ exit_code = NAGIOS_STATUS_UNKNOWN

\* C10 witness: the process has ended on an unknown browser name.
C10_Witness == args.browser \notin CapabilityNames /\ pc = "done"

DriverInitMsg == "Could not initialize Selenium driver"

\* webdriver.Remote(...) was attempted after a successful connect and
\* init_driver raised DriverInitException.
DriverInitFailed == conn /\ driver_calls = 1 /\ ~driver

\* C11: when init_driver raises DriverInitException after a successful
\* connect and the deadline never fires, the run ends with severity UNKNOWN,
\* 'Could not initialize Selenium driver' among the messages, run() never
\* invoked, and exit code 3.
C11_DriverInitFaultIsUnknown ==
    (Terminated /\ DriverInitFailed /\ deadline_at = "none") =>
        /\ pc = "done"
        /\ status_code[P] = NAGIOS_STATUS_UNKNOWN
        /\ Count(MsgOf(P), DriverInitMsg) = 1
        /\ run_calls = 0
        /\ exit_code = NAGIOS_STATUS_UNKNOWN

\* C11 witness: the process has ended after a driver-init fault with no
\* deadline interrupt.
C11_Witness ==
    pc = "done" /\ DriverInitFailed /\ deadline_at = "none" /\ alarm = "armed"

\* The message the generic clause builds for exception e.
FailedMsg(e) ==
    "FAILED: Exception of type: " \o TypeStr(e.type) \o ", message: " \o
    (IF e.args = <<>> THEN "No message in exception" ELSE e.args[1])

\* run() raised an exception of its own (not the deadline interrupt).
RunFaulted == ghost.run_exc # NoExc

IsPrefix(p, q) == Len(p) <= Len(q) /\ SubSeq(q, 1, Len(p)) = p

\* C12: a fault raised by run() other than the deadline adds the message
\* 'FAILED: Exception of type: <kind>, message: <text>' and leaves the final
\* severity at least CRITICAL; the messages and the severity recorded before
\* the fault are kept. Stated for the runs in which the deadline never fires.
C12_RunFaultIsCritical ==
    (Terminated /\ RunFaulted /\ deadline_at = "none") =>
        /\ InMsgs(P, FailedMsg(ghost.run_exc))
        /\ status_code[P] >= NAGIOS_STATUS_CRITICAL
        /\ IsPrefix(ghost.msg_at_fault, MsgOf(P))
        /\ status_code[P] >= ghost.status_at_fault

\* The helper calls through which run() names a status itself.
StatusHelpers ==
    {"raise_status", "verify_equals", "verify_text_present_in_elem",
     "verify_broken_images"}

\* C13 as stated: nothing run() can call makes the severity UNKNOWN, so it is
\* never UNKNOWN while run() executes, and raise_status is never given
\* UNKNOWN after CRITICAL.
C13_NoUnknownInRunning ==
    /\ pc = "running" => status_code[P] # NAGIOS_STATUS_UNKNOWN
    /\ \A i \in instances : \A j, k \in DOMAIN raised[i] :
          ~(j < k /\ raised[i][j] = NAGIOS_STATUS_CRITICAL
                  /\ raised[i][k] = NAGIOS_STATUS_UNKNOWN)

\* C13 amended, as a condition on one step: the severity becomes UNKNOWN only in the constructor's
\* invalid-browser branch, in the driver-init except clause, or
\* when run() itself passes UNKNOWN to raise_status or as the error_status of
\* a verify helper whose check fails; benchmark never makes it UNKNOWN, and
\* UNKNOWN once reached is never replaced.
UnknownOnlyWhenPassed ==
        /\ status_code[P] = NAGIOS_STATUS_UNKNOWN
              => status_code'[P] = NAGIOS_STATUS_UNKNOWN
        /\ (status_code[P] # NAGIOS_STATUS_UNKNOWN
            /\ status_code'[P] = NAGIOS_STATUS_UNKNOWN)
              => \/ pc = "validate" /\ args.browser \notin CapabilityNames
                 \/ pc = "except_raise" /\ Clause(exc) = "driver"
                 \/ /\ pc = "running"
                    /\ ghost'.call # ghost.call
                    /\ ghost'.call.op \in StatusHelpers
                    /\ ghost'.call.error_status = NAGIOS_STATUS_UNKNOWN
                    /\ (ghost'.call.op # "raise_status" => ~ghost'.call.ret)

\* C13 amended: every step of the plugin changes the severity to UNKNOWN only
\* where the code passes UNKNOWN itself, and never away from UNKNOWN.
C13_UnknownOnlyWhenPassed ==
    [][(P \in instances) => UnknownOnlyWhenPassed]_vars

\* C13 witness: run() raised the status from CRITICAL to UNKNOWN by passing
\* UNKNOWN as the error_status of a failing verify_equals.
C13_Witness ==
    /\ pc = "running"
    /\ ghost.call.op = "verify_equals"
    /\ raised[P] = <<NAGIOS_STATUS_CRITICAL, NAGIOS_STATUS_UNKNOWN>>
    /\ status_code[P] = NAGIOS_STATUS_UNKNOWN


\* The step is the completion of the run() helper call named op.
Completes(op) == ghost'.call # ghost.call /\ ghost'.call.op = op

\* What a step appended to the messages, provided it kept the old ones.
NewMsgs ==
    IF IsPrefix(msg, msg') THEN SubSeq(msg', Len(msg) + 1, Len(msg'))
    ELSE <<"messages lost">>

\* What a step appended to the samples, provided it kept the old ones.
NewSamples ==
    IF IsPrefix(perfdata, perfdata')
    THEN SubSeq(perfdata', Len(perfdata) + 1, Len(perfdata'))
    ELSE <<"samples lost">>

\* C14, as a condition on the step that completes a benchmark block normally.
BenchmarkRecords ==
    LET c == ghost'.call
        overcrit == c.elapsed > 2 * c.critical
        overwarn == c.elapsed > 2 * c.warning
        executed == c.label \o " executed in " \o FloatStr(c.elapsed)
                            \o " seconds"
        critmsg == "'" \o c.label \o "' exceeded critical threshold of "
                       \o ToString(c.critical)
        warnmsg == "'" \o c.label \o "' exceeded warning threshold of "
                       \o ToString(c.warning)
        sample == "'" \o c.label \o "'=" \o FloatStr(c.elapsed) \o "s;"
                      \o ToString(c.warning) \o ";" \o ToString(c.critical)
                      \o ";;"
    IN /\ NewSamples = <<sample>>
       /\ NewMsgs = IF overcrit THEN <<executed, critmsg>>
                    ELSE IF overwarn THEN <<executed, warnmsg>>
                    ELSE <<executed>>
       /\ status_code'[P] =
             IF overcrit THEN MaxOf({status_code[P], NAGIOS_STATUS_CRITICAL})
             ELSE IF overwarn
             THEN MaxOf({status_code[P], NAGIOS_STATUS_WARNING})
             ELSE status_code[P]

\* C14: every benchmark whose block completes normally appends exactly one
\* sample and one 'executed in' message, then the critical-threshold message
\* with escalation to CRITICAL if elapsed > critical, else the
\* warning-threshold message with escalation to WARNING if elapsed > warning,
\* else nothing more; never both threshold messages.
C14_BenchmarkRecordsOnce ==
    [][Completes("benchmark") => BenchmarkRecords]_vars

\* C14 witness: a benchmark completed above both thresholds and made the
\* severity CRITICAL.
C14_Witness ==
    /\ ghost.call.op = "benchmark"
    /\ ghost.call.elapsed > 2 * ghost.call.critical
    /\ ghost.call.elapsed > 2 * ghost.call.warning
    /\ status_code[P] = NAGIOS_STATUS_CRITICAL


\* The step leaves an open benchmark block by a raise.
BenchmarkAborts == bench.active /\ ghost'.bench_aborted # ghost.bench_aborted

\* C15: when the block scoped by benchmark raises, the deadline interrupt
\* included, the sample and the elapsed-time message are still appended
\* before the exception propagates, and the exception is not suppressed.
C15_BenchmarkRecordsOnRaise ==
    [][BenchmarkAborts =>
          /\ Len(NewSamples) = 1
          /\ Len(NewMsgs) >= 1
          /\ exc' # NoExc
          /\ pc' \in {"except", "finally"}]_vars


\* The step completes a benchmark with warning=1 and critical=2 on an
\* aggregator nothing was added to yet.
FreshBenchmark12 ==
    /\ Completes("benchmark")
    /\ ghost'.call.warning = 1 /\ ghost'.call.critical = 2
    /\ msg = <<>> /\ perfdata = <<>> /\ raised[P] = <<>>
    /\ status_code[P] = NAGIOS_STATUS_OK

\* The block of the completed benchmark took d half seconds. time.time() is
\* read before the block is entered and again after it is left, so the
\* measured elapsed time is strictly above the block's own duration: at the
\* model's half-second resolution, the next tick.
Took(d) == ghost'.call.elapsed = d + 1

\* C16: with warning=1 and critical=2 on a fresh aggregator, a block taking
\* 1 second yields WARNING, a block taking 2 seconds yields CRITICAL, and a
\* block taking 0.5 seconds yields no escalation (severity stays OK).
C16_ThresholdExamples ==
    [][FreshBenchmark12 =>
          /\ Took(2) => /\ status_code'[P] = NAGIOS_STATUS_WARNING
                        /\ raised'[P] = <<NAGIOS_STATUS_WARNING>>
          /\ Took(4) => /\ status_code'[P] = NAGIOS_STATUS_CRITICAL
                        /\ raised'[P] = <<NAGIOS_STATUS_CRITICAL>>
          /\ Took(1) => /\ status_code'[P] = NAGIOS_STATUS_OK
                        /\ raised'[P] = <<>>]_vars

\* C16 witness: the first benchmark of a run, with warning=1 and critical=2,
\* scoped a block of 1 second and the severity is WARNING.
C16_Witness ==
    /\ ghost.call.op = "benchmark"
    /\ ghost.call.warning = 1 /\ ghost.call.critical = 2
    /\ ghost.call.elapsed = 2 + 1
    /\ Len(perfdata) = 1 /\ Len(msg) = 2
    /\ status_code[P] = NAGIOS_STATUS_WARNING


\* C19, as a condition on the step that is a verify_equals call.
VerifyEqualsEffect ==
    LET c == ghost'.call
        failed == "Test failed: " \o c.label \o ", expected: " \o c.expected
                                  \o ", actual: " \o c.actual
    IN /\ c.ret = (c.actual = c.expected)
       /\ IF c.actual = c.expected
          THEN /\ msg' = msg
               /\ status_code' = status_code
          ELSE /\ NewMsgs = <<failed>>
               /\ status_code'[P] = MaxOf({status_code[P], c.error_status})
       /\ perfdata' = perfdata
       /\ pc' = "running"
       /\ exc' = NoExc

\* C19: verify_equals returns whether the values matched; equal values leave
\* messages, samples and severity unchanged; different values append exactly
\* one 'Test failed: <label>, expected: <expected>, actual: <actual>' message
\* and raise the severity to max(current, error_status); it never raises, so
\* run() goes on.
C19_VerifyEqualsNonFatal ==
    [][Completes("verify_equals") => VerifyEqualsEffect]_vars

\* C19 witness: a failing verify_equals given error_status WARNING after the
\* severity was already CRITICAL: the message is added, the severity stays
\* CRITICAL, and run() is still executing.
C19_Witness ==
    /\ pc = "running"
    /\ ghost.call.op = "verify_equals"
    /\ ~ghost.call.ret
    /\ raised[P] = <<NAGIOS_STATUS_CRITICAL, NAGIOS_STATUS_WARNING>>
    /\ status_code[P] = NAGIOS_STATUS_CRITICAL
    /\ "Test failed: title, expected: a, actual: b" \in Range(msg)


\* start() has left its try statement's body and except clauses.
Handled == pc \in {"finally", "print", "exit", "done", "uncaught"}

\* C20: in every run of start() in which a fault occurs (connection, driver
\* init, deadline, or a fault in run()), the except clauses add exactly one
\* fault message and apply exactly one escalation, never zero and never more.
C20_FaultMappedExactlyOnce ==
    (Handled /\ ghost.faults >= 1) =>
        /\ ghost.fault_msgs = 1
        /\ ghost.fault_raises = 1


\* The step is a str() call.
Renders == rendered'.n = rendered.n + 1

\* C17: str() of the aggregator changes neither messages, samples nor
\* severity, and a second str() of the same object with no mutating call in
\* between returns the same string as the first.
C17_RenderIsPure ==
    [][Renders =>
          /\ UNCHANGED <<instances, status_code, msg, perfdata>>
          /\ (rendered.n > 0 /\ rendered.obj = rendered'.obj)
                => rendered'.out = rendered.out]_vars

\* C17 witness: an object holding a message, a sample and a raised severity
\* was rendered twice in a row.
C17_Witness ==
    /\ rendered.n = 2
    /\ Len(MsgOf(rendered.obj)) = 1
    /\ Len(PerfdataOf(rendered.obj)) = 1
    /\ status_code[rendered.obj] = NAGIOS_STATUS_WARNING

\* The word the report starts with, per severity.
Prefix(code) ==
    CASE code = NAGIOS_STATUS_OK -> "OK: "
      [] code = NAGIOS_STATUS_WARNING -> "WARNING: "
      [] code = NAGIOS_STATUS_CRITICAL -> "CRITICAL: "
      [] code = NAGIOS_STATUS_UNKNOWN -> "UNKNOWN: "

\* The elements of q in order, each once, with sep between neighbours.
RECURSIVE Listed(_, _)
Listed(q, sep) ==
    IF q = <<>> THEN ""
    ELSE IF Len(q) = 1 THEN q[1]
    ELSE Listed(SubSeq(q, 1, Len(q) - 1), sep) \o sep \o q[Len(q)]

\* '<label>'=<value><unit>;<warn>;<crit>;<min>;<max> with min and max unset
SampleFormats ==
    {"'" \o l \o "'=" \o ToString(r) \o "s;" \o ToString(w) \o ";"
         \o ToString(c) \o ";;" : l \in Labels, r \in Reals, w \in Warns,
                                  c \in Crits}

\* add_msg and add_perfdata were called on no object but i.
OnlyUsed(i) ==
    \A j \in instances \ {i} : added[j] = <<>> /\ sampled[j] = <<>>

\* C18: after any sequence of add_msg, add_perfdata and raise_status calls on
\* one aggregator, its rendered report is the prefix naming the severity,
\* then every added message once, in insertion order, joined by ', ', then
\* the '|' separator, then every added sample once, in insertion order,
\* joined by spaces, each sample as '<label>'=<value><unit>;<warn>;<crit>;;
C18_ReportLayout ==
    [][(Renders /\ OnlyUsed(rendered'.obj)) =>
          LET i == rendered'.obj
          IN /\ rendered'.out = Prefix(status_code[i])
                                  \o Listed(added[i], ", ") \o " | "
                                  \o Listed(sampled[i], " ")
             /\ \A k \in DOMAIN sampled[i] : sampled[i][k] \in SampleFormats]_vars

\* C18 witness: two messages and the sample ('test_data','s',2,3,5) were
\* added to one object and it was rendered.
C18_Witness ==
    /\ rendered.n = 1
    /\ OnlyUsed(rendered.obj)
    /\ rendered.out = "OK: message 1, message 2 | 'test_data'=2s;3;5;;"


\* Nothing of the lifecycle after the connect attempt has happened yet.
NothingAfterConnect ==
    driver_calls = 0 /\ run_calls = 0 /\ quit_calls = 0 /\ stdout = <<>>
        /\ exit_code = -1

\* C21, as a condition on one step of the plugin process.
LinearStep ==
    /\ connect_calls' # connect_calls
          => connect_calls = 0 /\ NothingAfterConnect
    /\ driver_calls' # driver_calls
          => /\ driver_calls = 0 /\ connect_calls = 1 /\ conn
             /\ run_calls = 0 /\ quit_calls = 0 /\ stdout = <<>>
             /\ exit_code = -1
    /\ run_calls' # run_calls
          => /\ run_calls = 0 /\ driver_calls = 1 /\ driver
             /\ quit_calls = 0 /\ stdout = <<>> /\ exit_code = -1
    /\ quit_calls' # quit_calls
          => /\ quit_calls = 0 /\ pc \notin {"run", "running"}
             /\ stdout = <<>> /\ exit_code = -1
    /\ stdout' # stdout
          => stdout = <<>> /\ pc' \notin {"run", "running"} /\ exit_code = -1
    /\ stdout # <<>>
          => UNCHANGED <<connect_calls, driver_calls, run_calls, quit_calls,
                         stdout>>
    /\ exit_code # -1 => UNCHANGED vars

\* C21: within one start(), connect, driver init and run() are each attempted
\* at most once and in that order; driver init only after connect succeeded,
\* run() only after driver init succeeded, the driver is released only after
\* run() has ended or was skipped, and the report and exit come last.
C21_LifecycleIsLinear == [][LinearStep]_vars

\* C21 witness: a run that went through every stage once and exited.
C21_Witness ==
    /\ pc = "done"
    /\ connect_calls = 1 /\ driver_calls = 1 /\ run_calls = 1
    /\ quit_calls = 1 /\ Len(stdout) = 1
    /\ exit_code = status_code[P]


\* The process exited with code 0 or printed a report starting with 'OK:'.
ReportedOk ==
    \/ exit_code = NAGIOS_STATUS_OK
    \/ /\ stdout # <<>>
       /\ stdout[1] = Str(NAGIOS_STATUS_OK, MsgOf(P), PerfdataOf(P))

\* C22: whenever the plugin exits with code 0 or prints an 'OK:' report, the
\* connection and the driver initialization both succeeded, run() completed
\* without raising, the deadline did not fire, and nothing above OK was
\* raised during the run.
C22_NoFalseOk ==
    ReportedOk =>
        /\ conn /\ driver
        /\ run_calls = 1
        /\ ghost.faults = 0
        /\ deadline_at = "none" /\ alarm # "fired"
        /\ \A k \in DOMAIN raised[P] : raised[P][k] = NAGIOS_STATUS_OK

====
